---------------------------- MODULE Spec2Model ----------------------------
(***************************************************************************)
(* A model of the Gapminder dashboard (src/app/app.py): the number parser, *)
(* the wide-to-tidy pipeline of load_and_process_data, its cache, and the  *)
(* script that builds the page on every run.                               *)
(*                                                                         *)
(* Values.  A cell of a data frame is one of                               *)
(*    kind "nan"   the missing marker (NaN),                               *)
(*    kind "num"   a number, held exactly as m * 10^e (m, e integers,      *)
(*                 m not divisible by 10 unless it is 0),                  *)
(*    kind "str"   a string, held as the sequence s of its characters.     *)
(* kind "raise" is not a value: it stands for a ValueError leaving the     *)
(* function that was evaluated.                                            *)
(***************************************************************************)
EXTENDS Integers, Sequences, FiniteSets, TLC

VARIABLES
    pin,      \* parse_number: the raw cell value handed to it
    pout,     \* parse_number: what the call produced (Pending before it)
    frow,     \* ffill(axis=1): the row handed to it, [country, cells]
    fout,     \* ffill(axis=1): the row's year cells afterwards (<<>> before)
    files,    \* the three wide tables as read_csv returns them
    edits,    \* how many changes the data files have received
    call,     \* load_and_process_data called on the files: NoCall or its outcome
    cache,    \* st.cache_data's entry for load_and_process_data
    bodyRuns, \* how many times the body of load_and_process_data was entered
    runs,     \* script runs started in this process
    pc,       \* where the current script run is
    data,     \* the script's `data`
    sel,      \* widget values of this run: year, countries, play
    ui,       \* what this run has put on the page so far
    loop      \* the animation loop: index, years visited, frames, progress

vars == <<pin, pout, frow, fout, files, edits, call, cache, bodyRuns, runs,
          pc, data, sel, ui, loop>>

----------------------------------------------------------------------------
(* Bounds of the model.                                                     *)

MaxLen == 3        \* longest string handed to parse_number
MaxCols == 3       \* year columns of a row handed to ffill
MaxEdits == 1      \* changes made to the data files before they are loaded
MaxRuns == 2       \* script runs in one process

----------------------------------------------------------------------------
(* Values.                                                                  *)

Missing == [kind |-> "nan", s |-> <<>>, m |-> 0, e |-> 0]
Raise == [kind |-> "raise", s |-> <<>>, m |-> 0, e |-> 0]
Str(chars) == [kind |-> "str", s |-> chars, m |-> 0, e |-> 0]

RECURSIVE Normal(_, _)
Normal(m, e) ==
    IF m = 0 THEN <<0, 0>>
    ELSE IF m % 10 = 0 THEN Normal(m \div 10, e + 1)
    ELSE <<m, e>>

Num(m, e) ==
    LET n == Normal(m, e)
    IN  [kind |-> "num", s |-> <<>>, m |-> n[1], e |-> n[2]]

RECURSIVE Pow10(_)
Pow10(k) == IF k = 0 THEN 1 ELSE 10 * Pow10(k - 1)

IsPositive(v) == v.kind = "num" /\ v.m > 0

\* v >= n and v <= n for a number v and an integer n.
NumGeq(v, n) == IF v.e >= 0 THEN v.m * Pow10(v.e) >= n ELSE v.m >= n * Pow10(-v.e)
NumLeq(v, n) == IF v.e >= 0 THEN v.m * Pow10(v.e) <= n ELSE v.m <= n * Pow10(-v.e)

\* int(v): truncation toward zero.
ToInt(v) ==
    IF v.e >= 0 THEN v.m * Pow10(v.e)
    ELSE IF v.m >= 0 THEN v.m \div Pow10(-v.e)
    ELSE -((-v.m) \div Pow10(-v.e))

----------------------------------------------------------------------------
(* Strings.                                                                 *)

Digits == {"0", "1", "2", "3", "4", "5", "6", "7", "8", "9"}

DigitVal(c) ==
    CASE c = "0" -> 0 [] c = "1" -> 1 [] c = "2" -> 2 [] c = "3" -> 3
      [] c = "4" -> 4 [] c = "5" -> 5 [] c = "6" -> 6 [] c = "7" -> 7
      [] c = "8" -> 8 [] c = "9" -> 9

RECURSIVE LStrip(_)
LStrip(t) == IF t # <<>> /\ t[1] = " " THEN LStrip(Tail(t)) ELSE t

RECURSIVE RStrip(_)
RStrip(t) ==
    IF t # <<>> /\ t[Len(t)] = " " THEN RStrip(SubSeq(t, 1, Len(t) - 1)) ELSE t

\* str.strip()
Strip(t) == RStrip(LStrip(t))

\* str.endswith(c) for a one-character c
EndsWith(t, c) == t # <<>> /\ t[Len(t)] = c

\* value[:-1]
DropLast(t) == SubSeq(t, 1, Len(t) - 1)

RECURSIVE DigitsValue(_)
DigitsValue(t) ==
    IF t = <<>> THEN 0
    ELSE 10 * DigitsValue(DropLast(t)) + DigitVal(t[Len(t)])

IsDigit(c) == c \in Digits

\* float(t) of a string t: surrounding whitespace is ignored, then an optional
\* sign and a decimal numeral with at least one digit and at most one point.
\* Anything else is a ValueError.  (Exponents, underscores, "inf" and "nan"
\* need characters that no string of this model holds.)
PyFloat(t) ==
    LET u == Strip(t)
        signed == u # <<>> /\ u[1] \in {"-", "+"}
        body == IF signed THEN Tail(u) ELSE u
        points == {i \in 1..Len(body) : body[i] = "."}
        wellFormed == /\ \A i \in 1..Len(body) : body[i] \in Digits \cup {"."}
                      /\ Cardinality(points) <= 1
                      /\ \E i \in 1..Len(body) : body[i] \in Digits
        frac == IF points = {} THEN 0
                ELSE Len(body) - (CHOOSE i \in points : TRUE)
        mant == DigitsValue(SelectSeq(body, IsDigit))
    IN  IF ~wellFormed THEN Raise
        ELSE IF signed /\ u[1] = "-" THEN Num(-mant, -frac)
        ELSE Num(mant, -frac)

\* x * 10^k for the result x of float(): a ValueError stays one.
Times(x, k) == IF x.kind = "raise" THEN Raise ELSE Num(x.m, x.e + k)

----------------------------------------------------------------------------
(* parse_number.                                                            *)

\* A parser that took an upper-case K for thousands as well.
parse_number_AnyCaseK(value) ==
    IF value.kind = "nan" \/ (value.kind = "str" /\ value.s = <<>>)
    THEN Missing
    ELSE IF value.kind = "num" THEN Num(value.m, value.e)
    ELSE LET v == Strip(value.s)
         IN  IF EndsWith(v, "k") \/ EndsWith(v, "K")
             THEN Times(PyFloat(DropLast(v)), 3)
             ELSE IF EndsWith(v, "M") THEN Times(PyFloat(DropLast(v)), 6)
             ELSE IF EndsWith(v, "B") THEN Times(PyFloat(DropLast(v)), 9)
             ELSE LET f == PyFloat(v)
                  IN  IF f.kind = "raise" THEN Missing ELSE f

parse_number(value) ==
    IF value.kind = "nan" \/ (value.kind = "str" /\ value.s = <<>>)
    THEN Missing
    ELSE IF value.kind = "num" THEN Num(value.m, value.e)
    ELSE LET v == Strip(value.s)
         IN  IF EndsWith(v, "k") THEN Times(PyFloat(DropLast(v)), 3)
             ELSE IF EndsWith(v, "M") THEN Times(PyFloat(DropLast(v)), 6)
             ELSE IF EndsWith(v, "B") THEN Times(PyFloat(DropLast(v)), 9)
             ELSE LET f == PyFloat(v)
                  IN  IF f.kind = "raise" THEN Missing ELSE f


\* pd.to_numeric(x, errors='coerce') of one element: a number stays, a string
\* that reads as a decimal numeral becomes that number, the rest becomes NaN.
to_numeric(value) ==
    IF value.kind = "num" THEN Num(value.m, value.e)
    ELSE IF value.kind = "str"
    THEN LET f == PyFloat(value.s)
         IN  IF f.kind = "raise" THEN Missing ELSE f
    ELSE Missing

----------------------------------------------------------------------------
(* The pipeline of load_and_process_data.  A wide table is                  *)
(* [cols |-> the year column headers, rows |-> <<[country, cells]>>];       *)
(* the data frame's columns are country followed by cols.                   *)

min_year == 1990
max_year == 2023

Tables == {"pop", "lex", "gni"}

\* One row of the data frame, over all its columns: country, then the years.
FrameRow(row) == <<Str(row.country)>> \o row.cells

\* The largest column index <= j holding a value that is not NaN, 0 if none.
LastValid(fr, j) ==
    LET valid == {k \in 1..j : fr[k].kind # "nan"}
    IN  IF valid = {} THEN 0 ELSE CHOOSE k \in valid : \A l \in valid : l <= k

\* DataFrame.ffill(axis=1) on one row of the frame: every column of the row,
\* the country column included, fills the NaN cells to its right.
ffill(fr) ==
    [j \in 1..Len(fr) |->
        IF LastValid(fr, j) = 0 THEN Missing ELSE fr[LastValid(fr, j)]]

\* The year cells of a row after ffill(axis=1) of its frame.
FilledCells(row) == Tail(ffill(FrameRow(row)))

\* melt(id_vars=["country"]): one record per (row, year column), column by
\* column, the year still the header string.
melt(t) ==
    LET nr == Len(t.rows)
    IN  [k \in 1..(nr * Len(t.cols)) |->
            LET c == ((k - 1) \div nr) + 1
                r == ((k - 1) % nr) + 1
            IN  [country |-> t.rows[r].country,
                 year |-> Str(t.cols[c]),
                 value |-> FilledCells(t.rows[r])[c]]]

\* Lines 60-72: ffill, melt, year to numeric.
Tidy(t) ==
    LET long == melt(t)
    IN  [k \in 1..Len(long) |-> [long[k] EXCEPT !.year = to_numeric(@)]]

\* Lines 78 and 84: the value column through parse_number.
ParsedValues(tidy) ==
    [k \in 1..Len(tidy) |-> [tidy[k] EXCEPT !.value = parse_number(@)]]

\* Line 81: the value column through pd.to_numeric(errors='coerce').
NumericValues(tidy) ==
    [k \in 1..Len(tidy) |-> [tidy[k] EXCEPT !.value = to_numeric(@)]]

AnyRaise(tidy) == \E k \in 1..Len(tidy) : tidy[k].value.kind = "raise"

\* Lines 95-97: a NaN year satisfies neither comparison.
InYearRange(rec) ==
    /\ rec.year.kind = "num"
    /\ NumGeq(rec.year, min_year)
    /\ NumLeq(rec.year, max_year)

YearFilter(tidy) == SelectSeq(tidy, InYearRange)

pop_filtered(f) == YearFilter(ParsedValues(Tidy(f.pop)))
life_filtered(f) == YearFilter(NumericValues(Tidy(f.lex)))
gni_filtered(f) == YearFilter(ParsedValues(Tidy(f.gni)))

\* A name with its letters lower-cased and its blanks removed.
Lower(c) == IF c = "A" THEN "a" ELSE IF c = "B" THEN "b" ELSE c
NotBlank(c) == c # " "
Folded(name) ==
    LET t == SelectSeq(name, NotBlank) IN [i \in 1..Len(t) |-> Lower(t[i])]

\* A join that matched country names after normalising them.
SameKey_Normalised(l, r) ==
    Folded(l.country) = Folded(r.country) /\ l.year = r.year

\* A join on the country alone.
SameKey_CountryOnly(l, r) == l.country = r.country

\* The join key of pd.merge(on=["country", "year"]).
SameKey(l, r) == l.country = r.country /\ l.year = r.year

\* Line 100: pd.merge(pop, life, how="inner"), rows in the order of the left.
RECURSIVE Merge1(_, _)
Merge1(left, right) ==
    IF left = <<>> THEN <<>>
    ELSE LET l == Head(left)
             Hit(r) == SameKey(l, r)
             hits == SelectSeq(right, Hit)
         IN  [k \in 1..Len(hits) |->
                 [country |-> l.country, year |-> l.year,
                  population |-> l.value,
                  life_expectancy |-> hits[k].value]]
             \o Merge1(Tail(left), right)

\* Line 101: pd.merge(merged1, gni, how="inner").
RECURSIVE Merge2(_, _)
Merge2(left, right) ==
    IF left = <<>> THEN <<>>
    ELSE LET l == Head(left)
             Hit(r) == SameKey(l, r)
             hits == SelectSeq(right, Hit)
         IN  [k \in 1..Len(hits) |->
                 [country |-> l.country, year |-> l.year,
                  population |-> l.population,
                  life_expectancy |-> l.life_expectancy,
                  gni_per_capita |-> hits[k].value]]
             \o Merge2(Tail(left), right)

\* Line 106: dropna on the three value columns (country and year of a merged
\* row are never NaN here).
NotNa(rec) ==
    /\ rec.population.kind # "nan"
    /\ rec.life_expectancy.kind # "nan"
    /\ rec.gni_per_capita.kind # "nan"

\* A filter that let zeros through (>= 0 for > 0).
AllPositive_OrZero(rec) ==
    /\ rec.population.kind = "num" /\ rec.population.m >= 0
    /\ rec.life_expectancy.kind = "num" /\ rec.life_expectancy.m >= 0
    /\ rec.gni_per_capita.kind = "num" /\ rec.gni_per_capita.m >= 0

\* Lines 109-113.
AllPositive(rec) ==
    /\ IsPositive(rec.population)
    /\ IsPositive(rec.life_expectancy)
    /\ IsPositive(rec.gni_per_capita)

\* Line 116: year.astype(int).
YearAsInt(df) == [k \in 1..Len(df) |-> [df[k] EXCEPT !.year = ToInt(@)]]

\* The data frame load_and_process_data returns when no parse raises.
final_df(f) ==
    YearAsInt(
        SelectSeq(
            SelectSeq(Merge2(Merge1(pop_filtered(f), life_filtered(f)),
                             gni_filtered(f)),
                      NotNa),
            AllPositive))

\* parse_number is applied to every tidy row of population (line 78) and of
\* GNI (line 84), before any filtering: one ValueError ends the function.
PipelineRaises(f) ==
    \/ AnyRaise(ParsedValues(Tidy(f.pop)))
    \/ AnyRaise(ParsedValues(Tidy(f.gni)))

NoCall == [status |-> "none", rows |-> <<>>]

load_and_process_data(f) ==
    IF PipelineRaises(f) THEN [status |-> "raised", rows |-> <<>>]
    ELSE [status |-> "returned", rows |-> final_df(f)]


----------------------------------------------------------------------------
(* The state of a process that has not started a script run.                *)

Pending == [kind |-> "pending", s |-> <<>>, m |-> 0, e |-> 0]
NoRow == [country |-> <<>>, cells |-> <<>>]
NoFiles == [pop |-> [cols |-> <<>>, rows |-> <<>>],
            lex |-> [cols |-> <<>>, rows |-> <<>>],
            gni |-> [cols |-> <<>>, rows |-> <<>>]]
EmptyCache == [filled |-> FALSE, value |-> <<>>]
NoSel == [year |-> 0, countries |-> {}, play |-> FALSE]
BlankPage == [error |-> FALSE, uncaught |-> FALSE, sidebar |-> FALSE,
              chart |-> FALSE, warning |-> FALSE, prompt |-> FALSE,
              playOffered |-> FALSE, complete |-> FALSE,
              countryList |-> FALSE, footer |-> FALSE]
NoLoop == [i |-> 0, visited |-> <<>>, frames |-> <<>>, progress |-> <<0, 1>>]

ScriptIdle ==
    /\ cache = EmptyCache /\ bodyRuns = 0 /\ runs = 0 /\ pc = "idle"
    /\ data = <<>> /\ sel = NoSel /\ ui = BlankPage /\ loop = NoLoop

scriptVars == <<cache, bodyRuns, runs, pc, data, sel, ui, loop>>

----------------------------------------------------------------------------
(* parse_number as a function of one raw cell value.                        *)

ParseAlphabet == {"4", "0", ".", "-", " ", "k", "K", "M", "B", "a"}

Strings(n) == UNION {[1..l -> ParseAlphabet] : l \in 0..n}

\* Cells that are numbers already (12345, 0, -2.5).
NumberCells == {Num(12345, 0), Num(0, 0), Num(-25, -1)}

RawValues == {Missing} \cup NumberCells \cup {Str(t) : t \in Strings(MaxLen)}

InitParse ==
    /\ pin \in RawValues /\ pout = Pending
    /\ frow = NoRow /\ fout = <<>>
    /\ files = NoFiles /\ edits = 0 /\ call = NoCall
    /\ ScriptIdle

Parse ==
    /\ pout = Pending
    /\ pout' = parse_number(pin)
    /\ UNCHANGED <<pin, frow, fout, files, edits, call, scriptVars>>

SpecParse == InitParse /\ [][Parse]_vars

----------------------------------------------------------------------------
(* ffill(axis=1) as a function of one row of a wide table.                  *)

FillCountries == {<<"a">>, <<"a", "k">>}
FillCells == {Missing, Num(10, 0), Num(30, 0), Str(<<"2", "k">>)}

FillRows ==
    {[country |-> c, cells |-> cs] :
        c \in FillCountries,
        cs \in UNION {[1..n -> FillCells] : n \in 1..MaxCols}}

InitFill ==
    /\ frow \in FillRows /\ fout = <<>>
    /\ pin = Missing /\ pout = Pending
    /\ files = NoFiles /\ edits = 0 /\ call = NoCall
    /\ ScriptIdle

Fill ==
    /\ fout = <<>>
    /\ fout' = FilledCells(frow)
    /\ UNCHANGED <<pin, pout, frow, files, edits, call, scriptVars>>

SpecFill == InitFill /\ [][Fill]_vars


----------------------------------------------------------------------------
(* The data files.  They start as three tables over the same countries and  *)
(* year columns with every cell a valid positive value, and are then        *)
(* changed, one cell, country name, header or row at a time.                *)

Y1989 == <<"1", "9", "8", "9">>
Y1990 == <<"1", "9", "9", "0">>
Y1991 == <<"1", "9", "9", "1">>
Y2023 == <<"2", "0", "2", "3">>
Y2024 == <<"2", "0", "2", "4">>

ColChoices == {<<Y1989, Y1990>>, <<Y1990, Y1991>>, <<Y2023, Y2024>>}
HeaderNames == {Y1989, Y1990, Y1991, Y2023, Y2024, <<"y", "r">>}

\* The country names of a well-formed file: plain ones, or one ending in "k".
CountryChoices == {<< <<"a">>, <<"b">> >>, << <<"a", "k">>, <<"b">> >>}
OtherNames == {<<"A">>, <<"a", " ">>, <<"a">>, <<"b">>}

ColDigit(c) == IF c = 1 THEN "1" ELSE IF c = 2 THEN "2" ELSE "3"

\* The cell a well-formed table t holds in its c-th year column.
BaseCell(t, c) ==
    CASE t = "pop" -> Str(<<ColDigit(c), "M">>)
      [] t = "lex" -> Num(60 + c, 0)
      [] t = "gni" -> Str(<<ColDigit(c), "k">>)

BaseRow(t, name, ncols) ==
    [country |-> name, cells |-> [c \in 1..ncols |-> BaseCell(t, c)]]

BaseTable(t, cols, names) ==
    [cols |-> cols,
     rows |-> [r \in 1..Len(names) |-> BaseRow(t, names[r], Len(cols))]]

BaseFiles(cols, names) == [t \in Tables |-> BaseTable(t, cols, names)]

\* What a changed cell may hold: empty, 0, another valid number, a negative
\* magnitude, a string ending in k whose prefix is no number.
EditValues == {Missing, Num(0, 0), Num(55, 0), Str(<<"-", "1", "k">>),
               Str(<<"a", "k">>)}

Range(seq) == {seq[i] : i \in 1..Len(seq)}

RemoveAt(seq, i) == SubSeq(seq, 1, i - 1) \o SubSeq(seq, i + 1, Len(seq))

CanEdit == edits < MaxEdits /\ call = NoCall

EditCell ==
    /\ CanEdit
    /\ \E t \in Tables : \E r \in 1..Len(files[t].rows) :
       \E c \in 1..Len(files[t].cols) : \E v \in EditValues :
          /\ files[t].rows[r].cells[c] # v
          /\ files' = [files EXCEPT ![t].rows[r].cells[c] = v]
    /\ edits' = edits + 1
    /\ UNCHANGED <<pin, pout, frow, fout, call, scriptVars>>

RenameCountry ==
    /\ CanEdit
    /\ \E t \in Tables : \E r \in 1..Len(files[t].rows) :
       \E name \in OtherNames :
          /\ files[t].rows[r].country # name
          /\ files' = [files EXCEPT ![t].rows[r].country = name]
    /\ edits' = edits + 1
    /\ UNCHANGED <<pin, pout, frow, fout, call, scriptVars>>

RenameHeader ==
    /\ CanEdit
    /\ \E t \in Tables : \E c \in 1..Len(files[t].cols) :
       \E h \in HeaderNames \ Range(files[t].cols) :
          files' = [files EXCEPT ![t].cols[c] = h]
    /\ edits' = edits + 1
    /\ UNCHANGED <<pin, pout, frow, fout, call, scriptVars>>

DeleteRow ==
    /\ CanEdit
    /\ \E t \in Tables : \E r \in 1..Len(files[t].rows) :
          /\ Len(files[t].rows) > 1
          /\ files' = [files EXCEPT ![t].rows = RemoveAt(@, r)]
    /\ edits' = edits + 1
    /\ UNCHANGED <<pin, pout, frow, fout, call, scriptVars>>

AppendRow ==
    /\ CanEdit
    /\ \E t \in Tables : \E r \in 1..Len(files[t].rows) :
          files' = [files EXCEPT ![t].rows =
                        Append(@, BaseRow(t, files[t].rows[r].country,
                                          Len(files[t].cols)))]
    /\ edits' = edits + 1
    /\ UNCHANGED <<pin, pout, frow, fout, call, scriptVars>>

\* load_and_process_data() called on the files as they are.
CallLoad ==
    /\ call = NoCall
    /\ call' = load_and_process_data(files)
    /\ UNCHANGED <<pin, pout, frow, fout, files, edits, scriptVars>>

InitPipe ==
    /\ \E cols \in ColChoices : \E names \in CountryChoices :
          files = BaseFiles(cols, names)
    /\ edits = 0 /\ call = NoCall
    /\ pin = Missing /\ pout = Pending /\ frow = NoRow /\ fout = <<>>
    /\ ScriptIdle

NextPipe ==
    \/ EditCell
    \/ RenameCountry
    \/ RenameHeader
    \/ DeleteRow
    \/ AppendRow
    \/ CallLoad

SpecPipe == InitPipe /\ [][NextPipe]_vars


----------------------------------------------------------------------------
(* The script (lines 122-301), run from the top on every rerun, and the     *)
(* cache st.cache_data keeps for load_and_process_data.                     *)

Y1992 == <<"1", "9", "9", "2">>

GoodFiles == BaseFiles(<<Y1990, Y1991>>, << <<"a">>, <<"b">> >>)

\* Files the process may find on disk: well-formed ones; ones whose every
\* life expectancy is 0; ones with a population cell "ak"; ones whose country
\* b has no valid 1991; ones with the years 1990 and 1992 only.
FilePool ==
    {GoodFiles,
     [GoodFiles EXCEPT !.lex.rows =
         [r \in 1..Len(@) |->
             [@[r] EXCEPT !.cells = [c \in 1..Len(@) |-> Num(0, 0)]]]],
     [GoodFiles EXCEPT !.pop.rows[1].cells[1] = Str(<<"a", "k">>)],
     [GoodFiles EXCEPT !.lex.rows[2].cells[2] = Num(0, 0)],
     BaseFiles(<<Y1990, Y1992>>, << <<"a">>, <<"b">> >>)}

YearsOf(df) == {df[k].year : k \in 1..Len(df)}

RECURSIVE SortAsc(_)
SortAsc(S) ==
    IF S = {} THEN <<>>
    ELSE LET least == CHOOSE x \in S : \A y \in S : x <= y
         IN  <<least>> \o SortAsc(S \ {least})

\* Line 130: sorted(data["year"].unique()).
years(df) == SortAsc(YearsOf(df))

\* Line 131: the distinct country names (their order is not modelled).
countries(df) == {df[k].country : k \in 1..Len(df)}

\* Lines 137-143: the slider's values, min(years)..max(years) in steps of 1
\* (years is not empty when line 137 is reached).
SliderValues(df) ==
    LET ys == years(df)
    IN  IF ys = <<>> THEN {} ELSE ys[1]..ys[Len(ys)]

\* Lines 172-175 and 260-263: the records of one year and of the selection.
YearSlice(df, year, selected) ==
    LET Keep(rec) == rec.year = year /\ rec.country \in selected
    IN  SelectSeq(df, Keep)

\* Line 125: len(data) == 0.
IsEmptyDataset(df) == Len(df) = 0

\* An animation section that did not look at the selection.
HasSelection_Always(selected) == TRUE

\* Lines 171 and 248: `if selected_countries:`.
HasSelection(selected) == selected # {}

Between == pc \in {"idle", "done", "stopped", "crashed"}

nonScript == <<pin, pout, frow, fout, edits, call>>

\* The data files change on disk while no run is under way.
ChangeFiles ==
    /\ Between
    /\ files' \in FilePool \ {files}
    /\ UNCHANGED <<nonScript, scriptVars>>

\* A rerun: the script starts again from its first line.
StartRun ==
    /\ Between
    /\ runs < MaxRuns
    /\ runs' = runs + 1
    /\ pc' = "load"
    /\ data' = <<>> /\ sel' = NoSel /\ ui' = BlankPage /\ loop' = NoLoop
    /\ UNCHANGED <<nonScript, files, cache, bodyRuns>>

\* Line 123, the cache holding a value: it is returned, the body is not run.
LoadCached ==
    /\ pc = "load"
    /\ cache.filled
    /\ data' = cache.value
    /\ pc' = "check"
    /\ UNCHANGED <<nonScript, files, cache, bodyRuns, runs, sel, ui, loop>>

\* Line 123, the cache empty: the body runs and its return value is stored.
LoadComputed ==
    /\ pc = "load"
    /\ ~cache.filled
    /\ load_and_process_data(files).status = "returned"
    /\ bodyRuns' = bodyRuns + 1
    /\ cache' = [filled |-> TRUE, value |-> load_and_process_data(files).rows]
    /\ data' = load_and_process_data(files).rows
    /\ pc' = "check"
    /\ UNCHANGED <<nonScript, files, runs, sel, ui, loop>>

\* Line 123, the cache empty and the body raising: nothing is stored, and the
\* exception ends the run.
LoadRaised ==
    /\ pc = "load"
    /\ ~cache.filled
    /\ load_and_process_data(files).status = "raised"
    /\ bodyRuns' = bodyRuns + 1
    /\ ui' = [ui EXCEPT !.uncaught = TRUE]
    /\ pc' = "crashed"
    /\ UNCHANGED <<nonScript, files, cache, runs, data, sel, loop>>

\* A check that reported the error and went on (no st.stop()).
CheckEmpty_NoStop ==
    /\ pc = "check"
    /\ ui' = [ui EXCEPT !.error = IsEmptyDataset(data)]
    /\ pc' = "sidebar"
    /\ UNCHANGED <<nonScript, files, cache, bodyRuns, runs, data, sel, loop>>

\* Lines 125-127.
CheckEmpty ==
    /\ pc = "check"
    /\ IF IsEmptyDataset(data)
       THEN /\ ui' = [ui EXCEPT !.error = TRUE]
            /\ pc' = "stopped"
       ELSE /\ ui' = ui
            /\ pc' = "sidebar"
    /\ UNCHANGED <<nonScript, files, cache, bodyRuns, runs, data, sel, loop>>

\* Lines 129-168: the sidebar's widgets and the values the user gave them.
Sidebar ==
    /\ pc = "sidebar"
    /\ \E y \in SliderValues(data) : \E cs \in SUBSET countries(data) :
          sel' = [year |-> y, countries |-> cs, play |-> FALSE]
    /\ ui' = [ui EXCEPT !.sidebar = TRUE]
    /\ pc' = "main"
    /\ UNCHANGED <<nonScript, files, cache, bodyRuns, runs, data, loop>>

\* Lines 171-242: the static chart, the warning or the prompt.
MainChart ==
    /\ pc = "main"
    /\ IF HasSelection(sel.countries)
       THEN IF YearSlice(data, sel.year, sel.countries) # <<>>
            THEN ui' = [ui EXCEPT !.chart = TRUE]
            ELSE ui' = [ui EXCEPT !.warning = TRUE]
       ELSE ui' = [ui EXCEPT !.prompt = TRUE]
    /\ pc' = "gate"
    /\ UNCHANGED <<nonScript, files, cache, bodyRuns, runs, data, sel, loop>>

\* Lines 248-251 with nothing selected: no speed slider, no button.
NoAnimation ==
    /\ pc = "gate"
    /\ ~HasSelection(sel.countries)
    /\ pc' = "tail"
    /\ UNCHANGED <<nonScript, files, cache, bodyRuns, runs, data, sel, ui,
                   loop>>

\* Lines 248-251: the button is shown and was not pressed.
NotPlayed ==
    /\ pc = "gate"
    /\ HasSelection(sel.countries)
    /\ ui' = [ui EXCEPT !.playOffered = TRUE]
    /\ pc' = "tail"
    /\ UNCHANGED <<nonScript, files, cache, bodyRuns, runs, data, sel, loop>>

\* Lines 248-255: the button was pressed; placeholder and progress bar at 0.
Play ==
    /\ pc = "gate"
    /\ HasSelection(sel.countries)
    /\ ui' = [ui EXCEPT !.playOffered = TRUE]
    /\ sel' = [sel EXCEPT !.play = TRUE]
    /\ loop' = [i |-> 0, visited |-> <<>>, frames |-> <<>>,
                progress |-> <<0, 1>>]
    /\ pc' = "loop"
    /\ UNCHANGED <<nonScript, files, cache, bodyRuns, runs, data>>

\* A loop body that drew a frame for every year.
Frame_Always(df, year, selected) == TRUE

\* Line 265: `if not year_data.empty`.
Frame(df, year, selected) == YearSlice(df, year, selected) # <<>>

\* Lines 257-284: one iteration of `for i, year in enumerate(years)`.
LoopStep ==
    /\ pc = "loop"
    /\ loop.i < Len(years(data))
    /\ LET year == years(data)[loop.i + 1]
       IN  loop' = [i |-> loop.i + 1,
                    visited |-> Append(loop.visited, year),
                    frames |-> IF Frame(data, year, sel.countries)
                               THEN Append(loop.frames, year)
                               ELSE loop.frames,
                    progress |-> <<loop.i + 1, Len(years(data))>>]
    /\ UNCHANGED <<nonScript, files, cache, bodyRuns, runs, pc, data, sel,
                   ui>>

\* Lines 286-287: the loop is exhausted.
LoopEnd ==
    /\ pc = "loop"
    /\ loop.i = Len(years(data))
    /\ ui' = [ui EXCEPT !.complete = TRUE]
    /\ pc' = "tail"
    /\ UNCHANGED <<nonScript, files, cache, bodyRuns, runs, data, sel, loop>>

\* Lines 289-301: the list of all countries and the footer.
Footer ==
    /\ pc = "tail"
    /\ ui' = [ui EXCEPT !.countryList = TRUE, !.footer = TRUE]
    /\ pc' = "done"
    /\ UNCHANGED <<nonScript, files, cache, bodyRuns, runs, data, sel, loop>>

Init ==
    /\ files \in FilePool
    /\ edits = 0 /\ call = NoCall
    /\ pin = Missing /\ pout = Pending /\ frow = NoRow /\ fout = <<>>
    /\ ScriptIdle

\* The steps of a run once it has started.
ScriptStep ==
    \/ LoadCached
    \/ LoadComputed
    \/ LoadRaised
    \/ CheckEmpty
    \/ Sidebar
    \/ MainChart
    \/ NoAnimation
    \/ NotPlayed
    \/ Play
    \/ LoopStep
    \/ LoopEnd
    \/ Footer

Next == ChangeFiles \/ StartRun \/ ScriptStep

Spec == Init /\ [][Next]_vars

\* The animation loop goes on once entered: it is sequential code, and the
\* only waiting in it is time.sleep of at most two seconds per frame.
LiveSpec == Spec /\ WF_vars(LoopStep \/ LoopEnd)

----------------------------------------------------------------------------
(* Properties of the dataset load_and_process_data returns.                 *)

KeysOf(tidy) == {<<tidy[k].country, tidy[k].year>> : k \in 1..Len(tidy)}

\* C1: every record of the returned dataset has population, life_expectancy
\* and gni_per_capita present and strictly positive, and an integer year
\* with 1990 <= year <= 2023.
C1_RecordsValid ==
    call.status = "returned" =>
        \A k \in 1..Len(call.rows) :
            LET rec == call.rows[k]
            IN  /\ rec.population.kind = "num" /\ rec.population.m > 0
                /\ rec.life_expectancy.kind = "num"
                /\ rec.life_expectancy.m > 0
                /\ rec.gni_per_capita.kind = "num"
                /\ rec.gni_per_capita.m > 0
                /\ rec.year \in 1990..2023

\* A dataset was returned with records in it, from files that hold a 1989 or
\* a 2024 column in all three tables and a zero in a column that is in range.
C1_Witness ==
    /\ call.status = "returned"
    /\ call.rows # <<>>
    /\ \E h \in {Y1989, Y2024} : \A t \in Tables : h \in Range(files[t].cols)
    /\ \E t \in Tables : \E r \in 1..Len(files[t].rows) :
       \E c \in 1..Len(files[t].cols) :
          /\ files[t].cols[c] \in {Y1990, Y2023}
          /\ files[t].rows[r].cells[c] = Num(0, 0)

\* C3: a record of the returned dataset has its (country, year) in each of
\* the three range-filtered tidy tables, the country compared as an exact
\* string; so a pair that one table lacks is not in the dataset.
C3_InnerJoin ==
    call.status = "returned" =>
        \A k \in 1..Len(call.rows) :
            LET key == <<call.rows[k].country, Num(call.rows[k].year, 0)>>
            IN  /\ key \in KeysOf(pop_filtered(files))
                /\ key \in KeysOf(life_filtered(files))
                /\ key \in KeysOf(gni_filtered(files))

\* A dataset was returned with records in it, while for some year population
\* and GNI have the country "a" and life expectancy has it only as "A" or
\* as "a ".
C3_Witness ==
    /\ call.status = "returned"
    /\ call.rows # <<>>
    /\ \E y \in {Num(1990, 0), Num(2023, 0)} :
          /\ <<<<"a">>, y>> \in KeysOf(pop_filtered(files))
          /\ <<<<"a">>, y>> \in KeysOf(gni_filtered(files))
          /\ <<<<"a">>, y>> \notin KeysOf(life_filtered(files))
          /\ \E n \in {<<"A">>, <<"a", " ">>} :
                <<n, y>> \in KeysOf(life_filtered(files))

\* The year a header within 1990..2023 names.
HeaderYear(h) ==
    CASE h = Y1990 -> 1990 [] h = Y1991 -> 1991 [] h = Y2023 -> 2023

\* A cell that is a valid positive value of table t: a positive number, or
\* (population and GNI) a non-zero digit followed by k, M or B.
ValidCell(t, cell) ==
    \/ cell.kind = "num" /\ cell.m > 0
    \/ /\ t # "lex"
       /\ cell.kind = "str"
       /\ Len(cell.s) = 2
       /\ cell.s[1] \in Digits \ {"0"}
       /\ cell.s[2] \in {"k", "M", "B"}

NamesOf(t) == {files[t].rows[r].country : r \in 1..Len(files[t].rows)}

\* The three tables list the same countries, each once, and the same year
\* columns, all within 1990..2023, and every cell is valid and positive.
WellFormedFiles ==
    /\ \A t \in Tables :
          /\ Cardinality(NamesOf(t)) = Len(files[t].rows)
          /\ NamesOf(t) = NamesOf("pop")
          /\ Range(files[t].cols) = Range(files["pop"].cols)
          /\ Range(files[t].cols) \subseteq {Y1990, Y1991, Y2023}
          /\ \A r \in 1..Len(files[t].rows) : \A c \in 1..Len(files[t].cols) :
                ValidCell(t, files[t].rows[r].cells[c])

\* C8: from well-formed files the pipeline returns exactly (countries) x
\* (years) records, one for each (country, year) pair, the year being the
\* column header as an integer.
C8_OnePerPair ==
    (WellFormedFiles /\ call # NoCall) =>
        /\ call.status = "returned"
        /\ Len(call.rows) =
              Cardinality(NamesOf("pop")) * Len(files["pop"].cols)
        /\ \A n \in NamesOf("pop") : \A h \in Range(files["pop"].cols) :
              Cardinality({k \in 1..Len(call.rows) :
                              /\ call.rows[k].country = n
                              /\ call.rows[k].year = HeaderYear(h)}) = 1

\* Well-formed files with two countries and two years, one cell changed to
\* another valid value, gave four records.
C8_Witness ==
    /\ WellFormedFiles
    /\ edits > 0
    /\ call.status = "returned"
    /\ Len(call.rows) = 4


----------------------------------------------------------------------------
(* Properties of parse_number and of the forward fill.                      *)

\* C2: parse_number never raises: every raw cell value gives a float or the
\* missing marker.
C2_NeverRaises == pout.kind \in {"pending", "num", "nan"}

\* A decimal numeral: an optional minus sign, digits with at most one point
\* and at least one digit, nothing else.
IsNumeral(t) ==
    LET body == IF t # <<>> /\ t[1] = "-" THEN Tail(t) ELSE t
    IN  /\ \A i \in 1..Len(body) : body[i] \in Digits \cup {"."}
        /\ Cardinality({i \in 1..Len(body) : body[i] = "."}) <= 1
        /\ \E i \in 1..Len(body) : body[i] \in Digits

\* C7: "<n>k" gives n * 1000, "<n>M" gives n * 1000000, "<n>B" gives
\* n * 1000000000, a plain numeral gives its value, a number gives the same
\* number, empty and missing give missing, and a string ending in "K" gives
\* missing.
C7_Magnitudes ==
    pout # Pending =>
        /\ pin.kind = "nan" => pout = Missing
        /\ pin.kind = "num" => pout = pin
        /\ pin.kind = "str" =>
              LET t == pin.s
                  n == PyFloat(DropLast(t))
              IN  /\ t = <<>> => pout = Missing
                  /\ IsNumeral(t) => pout = PyFloat(t)
                  /\ (t # <<>> /\ IsNumeral(DropLast(t))) =>
                        /\ t[Len(t)] = "k" => pout = Num(n.m * 1000, n.e)
                        /\ t[Len(t)] = "M" => pout = Num(n.m * 1000, n.e + 3)
                        /\ t[Len(t)] = "B" => pout = Num(n.m * 1000, n.e + 6)
                  /\ (t # <<>> /\ t[Len(t)] = "K") => pout = Missing
        /\ pin = Str(<<"4", "0", "k">>) => pout = Num(40000, 0)
        /\ pin = Str(<<".", "4", "M">>) => pout = Num(400000, 0)
        /\ pin = Str(<<"4", "B">>) => pout = Num(4, 9)
        /\ pin = Str(<<"4", ".", "0">>) => pout = Num(4, 0)

\* "40K" was parsed, and so was "40k".
C7_Witness ==
    \/ pin = Str(<<"4", "0", "K">>) /\ pout = Missing
    \/ pin = Str(<<"4", "0", "k">>) /\ pout = Num(40000, 0)

\* C4: after the fill a year cell that was missing holds the value of the
\* nearest preceding year cell of its row that was not missing, and stays
\* missing when there is none; the other cells are unchanged.
C4_FillFromYearsOnly ==
    fout # <<>> =>
        \A i \in 1..Len(frow.cells) :
            LET prev == {j \in 1..i : frow.cells[j].kind # "nan"}
            IN  fout[i] =
                  IF prev = {} THEN Missing
                  ELSE frow.cells[CHOOSE j \in prev : \A l \in prev : l <= j]


----------------------------------------------------------------------------
(* Properties of the cache and of the page.                                 *)

\* C5: over the runs of one process the body of load_and_process_data is
\* executed at most once.
C5_BodyAtMostOnce == bodyRuns <= 1

\* The run holds the dataset load_and_process_data gave it.
HasDataset ==
    pc \in {"check", "sidebar", "main", "gate", "loop", "tail", "done",
            "stopped"}

\* C6: a run whose dataset has no records reports the "no data" error and
\* stops: it builds no sidebar control and renders no chart and no frame;
\* and the pipeline had returned that empty dataset (it is what the cache
\* holds), it had not raised.
C6_EmptyIsFatal ==
    /\ (HasDataset /\ data = <<>>) =>
          /\ pc \in {"check", "stopped"}
          /\ ~ui.sidebar /\ ~ui.chart /\ ~ui.warning /\ ~ui.prompt
          /\ ~ui.playOffered /\ ~ui.complete /\ loop.frames = <<>>
          /\ ~ui.countryList /\ ~ui.footer
          /\ ~ui.uncaught
          /\ cache.filled /\ cache.value = <<>>
    /\ pc = "stopped" <=> ui.error
    /\ pc = "stopped" => data = <<>>

\* A run over files whose every life expectancy is 0 has reported the error
\* and stopped.
C6_Witness ==
    /\ pc = "stopped"
    /\ ui.error
    /\ \A r \in 1..Len(files.lex.rows) : \A c \in 1..Len(files.lex.cols) :
          files.lex.rows[r].cells[c] = Num(0, 0)
    /\ bodyRuns = 1

\* C9: with records in the dataset and no country selected the run shows the
\* prompt, renders no static chart, offers no animation and renders no frame,
\* reports no error and is not stopped; the country list and the footer are
\* on the page when it ends.
C9_NothingSelected ==
    (pc \in {"gate", "loop", "tail", "done"} /\ data # <<>>
        /\ sel.countries = {}) =>
        /\ ui.prompt
        /\ ~ui.chart /\ ~ui.warning
        /\ ~ui.playOffered /\ pc # "loop" /\ loop = NoLoop /\ ~ui.complete
        /\ ~ui.error /\ ~ui.uncaught
        /\ pc = "done" => (ui.countryList /\ ui.footer)

\* A run with records and nothing selected has reached its end.
C9_Witness ==
    /\ pc = "done"
    /\ data # <<>>
    /\ sel.countries = {}
    /\ ui.prompt /\ ui.footer

Ascending(seq) == \A i \in 1..(Len(seq) - 1) : seq[i] < seq[i + 1]

\* The year has a record of a selected country.
Shown(year) ==
    \E k \in 1..Len(data) :
        data[k].year = year /\ data[k].country \in sel.countries

=============================================================================
